---- MODULE Spec2Model ----
(***************************************************************************)
(* A model of src/Pipeline/s5_Model_Training.py: the trainer/optimizer     *)
(* (ModelTrainerOptimizerClass), the experiment logger (MLflowLoggerClass) *)
(* and the entry point.                                                    *)
(*                                                                         *)
(* Library calls are modelled by what the script observes of them:         *)
(*   - pandas/yaml readers return the file's content or raise;             *)
(*   - scikit-learn's metrics are computed as exact rationals, the square  *)
(*     root as a fixed-point root; r2_score is NaN below two samples and   *)
(*     forced finite (1.0 / 0.0) for a constant target;                    *)
(*   - every mlflow logging call is one request to the tracking store, it  *)
(*     either is recorded there at once or raises;                         *)
(*   - `with mlflow.start_run(...)` ends the run on every exit of the      *)
(*     block, FINISHED on a normal exit and FAILED on an exception, and    *)
(*     lets the exception through.                                         *)
(***************************************************************************)
EXTENDS Integers, Sequences, FiniteSets, TLC

\* ---------------------------------------------------------------- bounds
MaxN == 3          \* rows of a target / prediction vector
MaxP == 3          \* columns of a feature matrix
MaxVal == 2        \* target and prediction values are 0..MaxVal
SqrtDigits == 4    \* np.sqrt is modelled to a precision of 1/SqrtDigits
MaxLoggers == 2    \* MLflowLoggerClass instances constructed in one process
MaxRuns == 2       \* calls of log_results in one process
CvFolds == 5       \* RandomizedSearchCV(..., cv=5)
NIter == 10        \* RandomizedSearchCV's n_iter, left at its default

VARIABLES
    \* --- calculate_metrics, as a pure function of its arguments
    actual_X,        \* the feature matrix argument: [shape, data]
    actual_y,        \* the target vector argument
    predicted_y,     \* the prediction vector argument
    npScalars,       \* the build: metrics come back as numpy.float64 (TRUE) or float
    metrics,         \* NotCalled, or what calculate_metrics returned / raised
    \* --- mlflow: the client's process-wide state and the tracking stores
    mlflowUri,       \* the tracking URI mlflow.set_tracking_uri last set
    activeRuns,      \* mlflow's stack of active runs: <<[uri, idx]>>
    store,           \* per tracking URI, the runs recorded there
    \* --- MLflowLoggerClass instances and the log_results call in progress
    loggers,         \* the instances constructed so far: <<[tracking_uri]>>
    pc,              \* where log_results stands: "idle", "start_run", ...
    frame,           \* the arguments and locals of the log_results call
    requests,        \* the mlflow calls that call has made so far, in order
    outcome,         \* of the last log_results call: "none", "returned", "raised"
    \* --- the ModelTrainerOptimizerClass instance
    X_train,         \* self.X_train, Unset until load_X_train has assigned it
    y_train,         \* self.y_train, Unset until load_y_train has assigned it
    params,          \* self.params, Unset until load_params has assigned it
    lastCall,        \* the last trainer method called and what it raised
    trainResult,     \* NotCalled, or what train_model returned / raised
    \* --- the entry point
    main             \* its position, the steps it has run, its local names

lvars == <<mlflowUri, activeRuns, store, loggers, pc, frame, requests, outcome>>

mvars == <<actual_X, actual_y, predicted_y, metrics>>

tvars == <<X_train, y_train, params, lastCall, trainResult>>

vars == <<actual_X, actual_y, predicted_y, npScalars, metrics,
          mlflowUri, activeRuns, store, loggers, pc, frame, requests, outcome,
          X_train, y_train, params, lastCall, trainResult, main>>

\* ------------------------------------------------------------- numbers
\* A float: a finite rational n/d (d > 0), or NaN, +Inf, -Inf.  np tells
\* whether the object is a numpy.float64 (division by zero gives inf/nan
\* with a warning) or a built-in float (division by zero raises).
Fin(n, d, np) == [k |-> "fin", n |-> n, d |-> d, np |-> np]
NaN(np) == [k |-> "nan", n |-> 0, d |-> 1, np |-> np]
PosInf(np) == [k |-> "+inf", n |-> 0, d |-> 1, np |-> np]
NegInf(np) == [k |-> "-inf", n |-> 0, d |-> 1, np |-> np]
Raised(e) == [k |-> "raised", n |-> 0, d |-> 1, np |-> FALSE, error |-> e]

IsRaised(a) == a.k = "raised"

\* 1 - a
OneMinus(a) ==
    CASE IsRaised(a) -> a
      [] a.k = "fin" -> Fin(a.d - a.n, a.d, a.np)
      [] a.k = "+inf" -> NegInf(a.np)
      [] a.k = "-inf" -> PosInf(a.np)
      [] OTHER -> a

\* a * i for an int i >= 0   (inf * 0 and nan * i are nan)
TimesInt(a, i) ==
    CASE a.k = "fin" -> Fin(a.n * i, a.d, a.np)
      [] a.k = "nan" -> a
      [] OTHER -> IF i = 0 THEN NaN(a.np) ELSE a

\* a / i for an int i.  By zero: a numpy.float64 gives inf or nan, a
\* built-in float raises ZeroDivisionError.
DivInt(a, i) ==
    CASE IsRaised(a) -> a
      [] i = 0 /\ ~a.np -> Raised("ZeroDivisionError")
      [] i = 0 /\ a.k = "fin" ->
            IF a.n > 0 THEN PosInf(TRUE)
            ELSE IF a.n < 0 THEN NegInf(TRUE) ELSE NaN(TRUE)
      [] i = 0 -> a
      [] a.k = "fin" -> IF i > 0 THEN Fin(a.n, a.d * i, a.np)
                                 ELSE Fin(-a.n, a.d * (-i), a.np)
      [] a.k = "nan" -> a
      [] OTHER -> IF (a.k = "+inf") = (i > 0) THEN PosInf(a.np) ELSE NegInf(a.np)

\* the largest r with r * r <= x, by search from below
RECURSIVE ISqrtFrom(_, _)
ISqrtFrom(r, x) == IF (r + 1) * (r + 1) > x THEN r ELSE ISqrtFrom(r + 1, x)

NpSqrt_NoRoot(a) == a

\* np.sqrt, rounded down to a multiple of 1/SqrtDigits
NpSqrt(a) ==
    CASE a.k = "fin" /\ a.n >= 0 ->
            Fin(ISqrtFrom(0, (a.n * SqrtDigits * SqrtDigits) \div a.d), SqrtDigits, a.np)
      [] a.k = "+inf" -> a
      [] OTHER -> NaN(a.np)

\* ------------------------------------------------------------- vectors
Abs(i) == IF i < 0 THEN -i ELSE i

RECURSIVE SumTo(_, _)
\* f[1] + ... + f[k]
SumTo(f, k) == IF k = 0 THEN 0 ELSE f[k] + SumTo(f, k - 1)

Sum(f) == SumTo(f, Len(f))

SeqsUpTo(S, n) == UNION {[1..k -> S] : k \in 0..n}

\* an r x c matrix (its entries play no part in this program's own code)
Matrix(r, c) == [shape |-> <<r, c>>, data |-> [i \in 1..r |-> [j \in 1..c |-> 0]]]

\* ------------------------------------------------- sklearn.metrics calls
\* check_consistent_length / check_array: empty input or unequal lengths
\* raise ValueError before anything is computed.
MetricInputError(y, yhat) == Len(y) = 0 \/ Len(y) # Len(yhat)

mean_squared_error(y, yhat, np) ==
    Fin(Sum([i \in 1..Len(y) |-> (y[i] - yhat[i]) * (y[i] - yhat[i])]), Len(y), np)

mean_absolute_error(y, yhat, np) ==
    Fin(Sum([i \in 1..Len(y) |-> Abs(y[i] - yhat[i])]), Len(y), np)

\* 1 - SSres/SStot, with SStot = (n * sum(y^2) - sum(y)^2) / n.
\* Fewer than two samples: a warning and float("nan").  SStot = 0: the
\* score is forced finite, 1.0 for a perfect prediction and 0.0 otherwise.
r2_score(y, yhat, np) ==
    LET n == Len(y)
        ssres == Sum([i \in 1..n |-> (y[i] - yhat[i]) * (y[i] - yhat[i])])
        nsstot == n * Sum([i \in 1..n |-> y[i] * y[i]]) - Sum(y) * Sum(y)
    IN  IF n < 2 THEN NaN(FALSE)
        ELSE IF nsstot = 0 THEN (IF ssres = 0 THEN Fin(1, 1, np) ELSE Fin(0, 1, np))
        ELSE Fin(nsstot - n * ssres, nsstot, np)

\* ----------------------------------------------------- calculate_metrics
AdjustedR2(r2, n, p) == OneMinus(DivInt(TimesInt(OneMinus(r2), n - 1), n - p - 1))

calculate_metrics(X, y, yhat, np) ==
    IF MetricInputError(y, yhat) THEN [raised |-> "ValueError"]
    ELSE LET mse == mean_squared_error(y, yhat, np)
             mae == mean_absolute_error(y, yhat, np)
             rmse == NpSqrt(mse)
             r2 == r2_score(y, yhat, np)
             n == Len(y)
             p == X.shape[2]
             aR2 == AdjustedR2(r2, n, p)
         IN  IF IsRaised(aR2) THEN [raised |-> aR2.error]
             ELSE [raised |-> "none", mse |-> mse, mae |-> mae, rmse |-> rmse,
                   r2 |-> r2, aR2 |-> aR2]

\* ---------------------------------------------------------------- files
NotCalled == [raised |-> "not called"]
Unset == [unset |-> TRUE]
Missing == [file |-> "missing"]
Malformed == [file |-> "malformed"]

\* an r x c table whose entries are told apart by seed
Table(r, c, seed) ==
    [shape |-> <<r, c>>,
     data |-> [i \in 1..r |-> [j \in 1..c |-> (i * seed + j) % (MaxVal + 1)]]]

\* pd.read_csv followed by np.array
read_csv(content) ==
    CASE content = Missing -> [raised |-> "FileNotFoundError"]
      [] content = Malformed -> [raised |-> "ParserError"]
      [] OTHER -> [raised |-> "none", value |-> content]

\* ndarray.ravel(): the entries row by row
ravel(a) ==
    LET r == a.shape[1]
        c == a.shape[2]
    IN  [k \in 1..(r * c) |-> a.data[((k - 1) \div c) + 1][((k - 1) % c) + 1]]

\* open + yaml.safe_load
safe_load(content) ==
    CASE content = Missing -> [raised |-> "FileNotFoundError"]
      [] content = Malformed -> [raised |-> "YAMLError"]
      [] OTHER -> [raised |-> "none", value |-> content]

\* ------------------------------------------- ModelTrainerOptimizerClass
Returned(op) == [op |-> op, raised |-> "none"]
Threw(op, e) == [op |-> op, raised |-> e]

\* Each load reads its file as it is at the time of the call: content.
load_X_train(content) ==
    LET r == read_csv(content)
    IN  /\ IF r.raised = "none"
             THEN X_train' = r.value
             ELSE UNCHANGED X_train
        /\ lastCall' = Threw("load_X_train", r.raised)
        /\ UNCHANGED <<y_train, params, trainResult>>

load_y_train(content) ==
    LET r == read_csv(content)
    IN  /\ IF r.raised = "none"
             THEN y_train' = ravel(r.value)
             ELSE UNCHANGED y_train
        /\ lastCall' = Threw("load_y_train", r.raised)
        /\ UNCHANGED <<X_train, params, trainResult>>

load_params(content) ==
    LET r == safe_load(content)
    IN  /\ IF r.raised = "none"
             THEN params' = r.value
             ELSE UNCHANGED params
        /\ lastCall' = Threw("load_params", r.raised)
        /\ UNCHANGED <<X_train, y_train, trainResult>>

\* the hyperparameter names, in sorted order
HyperNames == <<"alpha", "l1_ratio">>
HyperValues == {1, 2}

Range(f) == {f[i] : i \in DOMAIN f}

\* the names of a grid in sorted order, as ParameterGrid walks them
GridNames(grid) == SelectSeq(HyperNames, LAMBDA h : h \in DOMAIN grid)

\* every combination of one candidate per hyperparameter, each as the
\* items of the dict
ParameterGrid(grid) ==
    LET names == GridNames(grid)
    IN  { [i \in 1..Len(names) |-> <<names[i], v[i]>>] :
            v \in {w \in [1..Len(names) -> HyperValues] :
                      \A i \in 1..Len(names) : w[i] \in Range(grid[names[i]])} }

\* ParameterSampler: n_iter candidates drawn without replacement, all of
\* them when the grid holds fewer
ParameterSamples(grid) ==
    LET all == ParameterGrid(grid)
        k == IF Cardinality(all) < NIter THEN Cardinality(all) ELSE NIter
    IN  {S \in SUBSET all : Cardinality(S) = k}

\* what random_search.fit checks before any estimator is fitted
FitInputError(X, y) ==
    \/ X.shape[1] # Len(y)
    \/ X.shape[1] < CvFolds

\* best_model.predict(X): one value per row of X
Predictions(X, y) == {y, [i \in 1..X.shape[1] |-> 0]}

BestParams_Defaults(sample, best) == <<>>

\* random_search.best_params_
BestParams(sample, best) == best

\* the data train_model hands to fit and predict
TrainingSet_Aligned ==
    [X |-> X_train,
     y |-> IF X_train.shape[1] < Len(y_train)
             THEN SubSeq(y_train, 1, X_train.shape[1]) ELSE y_train]

TrainingSet == [X |-> X_train, y |-> y_train]

\* The cross-validated scores are the library's: any sampled candidate may
\* come out best.
train_model(model, param_grid) ==
    /\ IF X_train = Unset \/ y_train = Unset
         THEN trainResult' = [raised |-> "AttributeError", fits |-> <<>>]
         ELSE LET d == TrainingSet
              IN  IF FitInputError(d.X, d.y)
                    THEN trainResult' = [raised |-> "ValueError", fits |-> <<>>]
                    ELSE \E sample \in ParameterSamples(param_grid) :
                         \E best \in sample :
                         \E pred \in Predictions(d.X, d.y) :
                            trainResult' =
                              [raised |-> "none",
                               best_model |-> [class |-> model.class,
                                               params |-> BestParams(sample, best)],
                               best_params |-> BestParams(sample, best),
                               predicted_y |-> pred,
                               grid |-> param_grid,
                               fits |-> <<[call |-> "search.fit", X |-> d.X, y |-> d.y],
                                          [call |-> "fit", X |-> d.X, y |-> d.y],
                                          [call |-> "predict", X |-> d.X]>>]
    /\ lastCall' = Threw("train_model", trainResult'.raised)
    /\ UNCHANGED <<X_train, y_train, params>>

get_Model_Name(model) == model.class

ElasticNet == [class |-> "ElasticNet", params |-> <<>>]

\* ------------------------------------------- calculate_metrics as a call

\* the tracking servers, and mlflow's tracking URI before any is set
Uris == {"http://localhost:5000", "http://127.0.0.1:5001"}
NoUri == "unset"

NoRun == [uri |-> NoUri, idx |-> 0]
NoFrame == [self |-> 0, run |-> NoRun]
NoStore == [u \in Uris |-> <<>>]
MainNotRun == [pc |-> 0, status |-> "not run", trace |-> <<>>]

\* calculate_metrics on arguments drawn from the bounded sets; no trainer
\* state, no logger, the entry point not run
MetricsInit ==
    /\ actual_y \in SeqsUpTo(0..MaxVal, MaxN)
    /\ \E c \in 0..MaxP : actual_X = Matrix(Len(actual_y), c)
    /\ predicted_y \in SeqsUpTo(0..MaxVal, MaxN)
    /\ npScalars \in BOOLEAN
    /\ metrics = NotCalled
    /\ mlflowUri = NoUri /\ activeRuns = <<>> /\ store = NoStore /\ loggers = <<>>
    /\ pc = "idle" /\ frame = NoFrame /\ requests = <<>> /\ outcome = "none"
    /\ X_train = Unset /\ y_train = Unset /\ params = Unset
    /\ lastCall = Returned("__init__") /\ trainResult = NotCalled
    /\ main = MainNotRun

CalculateMetrics ==
    /\ metrics = NotCalled
    /\ metrics' = calculate_metrics(actual_X, actual_y, predicted_y, npScalars)
    /\ UNCHANGED <<actual_X, actual_y, predicted_y, npScalars>>

MetricsNext == CalculateMetrics /\ UNCHANGED <<lvars, tvars, main>>

\* ------------------------------------------------------ mlflow tracking

NewRun(name, by) ==
    [name |-> name, status |-> "RUNNING", metrics |-> <<>>, params |-> <<>>,
     artifacts |-> <<>>, by |-> by, latest |-> loggers[Len(loggers)].tracking_uri]

RECURSIVE CountRuns(_)
CountRuns(U) ==
    IF U = {} THEN 0
    ELSE LET u == CHOOSE x \in U : TRUE IN Len(store[u]) + CountRuns(U \ {u})

\* the runs recorded so far, over all tracking stores
RunCount == CountRuns(Uris)

\* the run on top of mlflow's active-run stack
TopRun == activeRuns[Len(activeRuns)]

RunOpen ==
    /\ activeRuns # <<>>
    /\ store[TopRun.uri][TopRun.idx].status = "RUNNING"

\* the store after field f of the active run got entry e appended
Appended(f, e) ==
    [store EXCEPT ![TopRun.uri][TopRun.idx][f] = Append(@, e)]

Request(op, key, ok) == [op |-> op, key |-> key, ok |-> ok, open |-> RunOpen]

\* ---------------------------------------------------- MLflowLoggerClass
\* __init__: stores the address on the instance and sets the client's
\* process-wide tracking URI.
LoggerInit(tracking_uri) ==
    /\ pc = "idle"
    /\ Len(loggers) < MaxLoggers
    /\ loggers' = Append(loggers, [tracking_uri |-> tracking_uri])
    /\ mlflowUri' = tracking_uri
    /\ UNCHANGED <<activeRuns, store, pc, frame, requests, outcome>>

\* the fixed metric keys of log_results, in the order they are logged
MetricKeys == <<"MSE", "MAE", "RMSE", "R2", "Adjusted R2">>

\* the value log_results passes with the i-th metric key
MetricArg(f, i) ==
    CASE i = 1 -> f.mse [] i = 2 -> f.mae [] i = 3 -> f.rmse
      [] i = 4 -> f.r2 [] i = 5 -> f.aR2

ParamKey_NoPrefix(param_name) == param_name

ParamKey(param_name) == "Best " \o param_name

ArtifactKey(model_name) == model_name \o "_model"

\* where mlflow.start_run creates the run
RunDestination_OfInstance(self) == loggers[self].tracking_uri

RunDestination(self) == mlflowUri

\* the status ActiveRun.__exit__ ends the run with
ExitStatus_AlwaysFinished(exc) == "FINISHED"

ExitStatus(exc) == IF exc THEN "FAILED" ELSE "FINISHED"

\* log_results is entered: its arguments are bound, nothing is sent yet.
LogResultsCall(self, model_name, best_model, best_params, m) ==
    /\ pc = "idle"
    /\ RunCount < MaxRuns
    /\ pc' = "start_run"
    /\ frame' = [self |-> self, model_name |-> model_name,
                 best_model |-> best_model, best_params |-> best_params,
                 mse |-> m.mse, mae |-> m.mae, rmse |-> m.rmse, r2 |-> m.r2,
                 aR2 |-> m.aR2, i |-> 1, exc |-> FALSE, run |-> NoRun]
    /\ requests' = <<>>
    /\ outcome' = "none"
    /\ UNCHANGED <<mlflowUri, activeRuns, store, loggers>>

\* mlflow.start_run(run_name=model_name): the run is created at the
\* client's tracking URI and becomes the active run, or the call raises
\* and the with block is never entered.
StartRun ==
    /\ pc = "start_run"
    /\ \/ LET uri == RunDestination(frame.self)
              runs == Append(store[uri], NewRun(frame.model_name, frame.self))
          IN  /\ store' = [store EXCEPT ![uri] = runs]
              /\ activeRuns' = Append(activeRuns, [uri |-> uri, idx |-> Len(runs)])
              /\ requests' = Append(requests, Request("start_run", frame.model_name, TRUE))
              /\ frame' = [frame EXCEPT !.run = [uri |-> uri, idx |-> Len(runs)]]
              /\ pc' = "log_metric"
              /\ UNCHANGED outcome
       \/ /\ requests' = Append(requests, Request("start_run", frame.model_name, FALSE))
          /\ pc' = "idle"
          /\ outcome' = "raised"
          /\ UNCHANGED <<store, activeRuns, frame>>
    /\ UNCHANGED <<mlflowUri, loggers>>

\* mlflow.log_metric(key, value), five times: recorded at once, or raises.
LogMetric ==
    /\ pc = "log_metric"
    /\ LET key == MetricKeys[frame.i]
       IN \/ /\ store' = Appended("metrics", <<key, MetricArg(frame, frame.i)>>)
             /\ requests' = Append(requests, Request("log_metric", key, TRUE))
             /\ IF frame.i < Len(MetricKeys)
                  THEN /\ frame' = [frame EXCEPT !.i = @ + 1]
                       /\ UNCHANGED pc
                  ELSE /\ frame' = [frame EXCEPT !.i = 1]
                       /\ pc' = IF frame.best_params = <<>> THEN "log_model" ELSE "log_param"
          \/ /\ requests' = Append(requests, Request("log_metric", key, FALSE))
             /\ frame' = [frame EXCEPT !.exc = TRUE]
             /\ pc' = "exit"
             /\ UNCHANGED store
    /\ UNCHANGED <<mlflowUri, activeRuns, loggers, outcome>>

\* for param_name, param_value in best_params.items(): mlflow.log_param
LogParam ==
    /\ pc = "log_param"
    /\ LET item == frame.best_params[frame.i]
           key == ParamKey(item[1])
       IN \/ /\ store' = Appended("params", <<key, item[2]>>)
             /\ requests' = Append(requests, Request("log_param", key, TRUE))
             /\ IF frame.i < Len(frame.best_params)
                  THEN /\ frame' = [frame EXCEPT !.i = @ + 1]
                       /\ UNCHANGED pc
                  ELSE /\ frame' = [frame EXCEPT !.i = 1]
                       /\ pc' = "log_model"
          \/ /\ requests' = Append(requests, Request("log_param", key, FALSE))
             /\ frame' = [frame EXCEPT !.exc = TRUE]
             /\ pc' = "exit"
             /\ UNCHANGED store
    /\ UNCHANGED <<mlflowUri, activeRuns, loggers, outcome>>

\* mlflow.sklearn.log_model(best_model, f"{model_name}_model"); the prints
\* that follow cannot fail.
LogModel ==
    /\ pc = "log_model"
    /\ LET key == ArtifactKey(frame.model_name)
       IN \/ /\ store' = Appended("artifacts", <<key, frame.best_model>>)
             /\ requests' = Append(requests, Request("log_model", key, TRUE))
             /\ UNCHANGED frame
          \/ /\ requests' = Append(requests, Request("log_model", key, FALSE))
             /\ frame' = [frame EXCEPT !.exc = TRUE]
             /\ UNCHANGED store
    /\ pc' = "exit"
    /\ UNCHANGED <<mlflowUri, activeRuns, loggers, outcome>>

WithExit_OnlyOnSuccess ==
    /\ pc = "exit"
    /\ IF frame.exc
         THEN UNCHANGED <<store, activeRuns>>
         ELSE /\ store' = [store EXCEPT ![TopRun.uri][TopRun.idx].status = "FINISHED"]
              /\ activeRuns' = SubSeq(activeRuns, 1, Len(activeRuns) - 1)
    /\ pc' = "idle"
    /\ outcome' = IF frame.exc THEN "raised" ELSE "returned"
    /\ UNCHANGED <<mlflowUri, loggers, frame, requests>>

\* the end of the with block, normal or by an exception: the run is ended
\* and popped; an exception goes on to the caller.
WithExit ==
    /\ pc = "exit"
    /\ store' = [store EXCEPT ![TopRun.uri][TopRun.idx].status = ExitStatus(frame.exc)]
    /\ activeRuns' = SubSeq(activeRuns, 1, Len(activeRuns) - 1)
    /\ pc' = "idle"
    /\ outcome' = IF frame.exc THEN "raised" ELSE "returned"
    /\ UNCHANGED <<mlflowUri, loggers, frame, requests>>

\* ---------------------------------------------- the logger's callers
\* argument lists of log_results: a model name, the fitted model, its
\* best_params (as the dict's items() in order) and a metric bundle as
\* calculate_metrics returns it
Fitted(class, best_params) == [class |-> class, params |-> best_params]

CallSamples ==
    { [model_name |-> "ElasticNet",
       best_model |-> Fitted("ElasticNet", << <<"alpha", 1>>, <<"l1_ratio", 2>> >>),
       best_params |-> << <<"alpha", 1>>, <<"l1_ratio", 2>> >>,
       metrics |-> calculate_metrics(Matrix(3, 1), <<0, 1, 2>>, <<2, 1, 2>>, FALSE)],
      [model_name |-> "Lasso",
       best_model |-> Fitted("Lasso", << <<"alpha", 2>> >>),
       best_params |-> << <<"alpha", 2>> >>,
       metrics |-> calculate_metrics(Matrix(2, 0), <<0, 2>>, <<1, 2>>, TRUE)] }

\* a process that has constructed no logger yet
LoggerStateInit ==
    /\ mlflowUri = NoUri /\ activeRuns = <<>> /\ store = NoStore /\ loggers = <<>>
    /\ pc = "idle" /\ frame = NoFrame /\ requests = <<>> /\ outcome = "none"
    /\ actual_X = Matrix(0, 0) /\ actual_y = <<>> /\ predicted_y = <<>>
    /\ metrics = NotCalled /\ npScalars = FALSE
    /\ X_train = Unset /\ y_train = Unset /\ params = Unset
    /\ lastCall = Returned("__init__") /\ trainResult = NotCalled
    /\ main = MainNotRun

LoggerNext ==
    \/ (\E u \in Uris : LoggerInit(u)) /\ UNCHANGED <<mvars, tvars, main, npScalars>>
    \/ /\ \E self \in 1..Len(loggers), a \in CallSamples :
            LogResultsCall(self, a.model_name, a.best_model, a.best_params, a.metrics)
       /\ UNCHANGED <<mvars, tvars, main, npScalars>>
    \/ StartRun /\ UNCHANGED <<mvars, tvars, main, npScalars>>
    \/ LogMetric /\ UNCHANGED <<mvars, tvars, main, npScalars>>
    \/ LogParam /\ UNCHANGED <<mvars, tvars, main, npScalars>>
    \/ LogModel /\ UNCHANGED <<mvars, tvars, main, npScalars>>
    \/ WithExit /\ UNCHANGED <<mvars, tvars, main, npScalars>>

SpecMetrics == MetricsInit /\ [][MetricsNext]_vars

SpecLogger == LoggerStateInit /\ [][LoggerNext]_vars

\* log_results runs on one thread without suspension points: once entered
\* it keeps executing until it returns or raises.
LogResultsStep ==
    /\ StartRun \/ LogMetric \/ LogParam \/ LogModel \/ WithExit
    /\ UNCHANGED <<mvars, tvars, main, npScalars>>

\* the address the entry point constructs its logger with
TrackingUri == "http://localhost:5000"

\* a process whose loggers are all constructed with that one address
OneUriNext ==
    \/ LoggerInit(TrackingUri) /\ UNCHANGED <<mvars, tvars, main, npScalars>>
    \/ /\ \E self \in 1..Len(loggers), a \in CallSamples :
            LogResultsCall(self, a.model_name, a.best_model, a.best_params, a.metrics)
       /\ UNCHANGED <<mvars, tvars, main, npScalars>>
    \/ LogResultsStep

FairSpecLogger == LoggerStateInit /\ [][OneUriNext]_vars /\ WF_vars(LogResultsStep)

\* ------------------------------------------- the trainer's callers
XFiles == {Missing, Table(CvFolds, 1, 1), Table(CvFolds, 2, 2), Table(2, 1, 1)}
YFiles == {Missing, Table(CvFolds, 1, 1), Table(CvFolds, 1, 2), Table(CvFolds, 2, 1)}

SingletonGrid == [alpha |-> <<1>>, l1_ratio |-> <<2>>]
Grids ==
    { SingletonGrid,
      [alpha |-> <<2>>],
      [alpha |-> <<1, 2>>, l1_ratio |-> <<1, 2>>] }

YamlNull == [yaml_null |-> TRUE]
ParamFiles ==
    { Missing, Malformed, YamlNull, [lasso |-> [alpha |-> <<1, 2>>]],
      [elasticnet |-> SingletonGrid],
      [elasticnet |-> [alpha |-> <<1, 2>>, l1_ratio |-> <<1, 2>>]] }

CallCalculateMetrics ==
    /\ trainResult.raised = "none"
    /\ metrics' = calculate_metrics(X_train, y_train, trainResult.predicted_y, npScalars)
    /\ lastCall' = Threw("calculate_metrics", metrics'.raised)
    /\ UNCHANGED <<X_train, y_train, params, trainResult>>

\* a trainer just constructed
TrainerInit ==
    /\ X_train = Unset /\ y_train = Unset /\ params = Unset
    /\ lastCall = Returned("__init__") /\ trainResult = NotCalled
    /\ actual_X = Matrix(0, 0) /\ actual_y = <<>> /\ predicted_y = <<>>
    /\ metrics = NotCalled /\ npScalars \in BOOLEAN
    /\ mlflowUri = NoUri /\ activeRuns = <<>> /\ store = NoStore /\ loggers = <<>>
    /\ pc = "idle" /\ frame = NoFrame /\ requests = <<>> /\ outcome = "none"
    /\ main = MainNotRun

NotTrainer == <<actual_X, actual_y, predicted_y, npScalars, lvars, main>>

TrainerNext ==
    \/ (\E c \in XFiles : load_X_train(c)) /\ UNCHANGED <<metrics, NotTrainer>>
    \/ (\E c \in YFiles : load_y_train(c)) /\ UNCHANGED <<metrics, NotTrainer>>
    \/ (\E g \in Grids : train_model(ElasticNet, g)) /\ UNCHANGED <<metrics, NotTrainer>>
    \/ CallCalculateMetrics /\ UNCHANGED NotTrainer

SpecTrainer == TrainerInit /\ [][TrainerNext]_vars

\* ------------------------------------------------------ the entry point
\* the statements of the script that can fail, in program order
Steps ==
    <<"load_X_train", "load_y_train", "load_params", "params[elasticnet]",
      "train_model", "calculate_metrics", "get_Model_Name", "MLflowLoggerClass",
      "log_results">>

Advance_PastErrors(step, raised) ==
    [main EXCEPT !.pc = @ + 1,
                 !.trace = Append(@, [step |-> step, raised |-> raised])]

\* the script after `step` ended: on to the next statement, or the
\* uncaught exception ends the process
Advance(step, raised) ==
    [main EXCEPT !.pc = IF raised = "none" THEN @ + 1 ELSE @,
                 !.status = IF raised = "none" THEN @ ELSE "crashed",
                 !.trace = Append(@, [step |-> step, raised |-> raised])]

At(k) == main.status = "running" /\ main.pc = k

NotMainTrainer == <<actual_X, actual_y, predicted_y, npScalars, lvars>>

MainLoadX ==
    /\ At(1)
    /\ \E c \in XFiles : load_X_train(c)
    /\ main' = Advance(Steps[1], lastCall'.raised)
    /\ UNCHANGED <<metrics, NotMainTrainer>>

MainLoadY ==
    /\ At(2)
    /\ \E c \in YFiles : load_y_train(c)
    /\ main' = Advance(Steps[2], lastCall'.raised)
    /\ UNCHANGED <<metrics, NotMainTrainer>>

MainLoadParams ==
    /\ At(3)
    /\ \E c \in ParamFiles : load_params(c)
    /\ main' = Advance(Steps[3], lastCall'.raised)
    /\ UNCHANGED <<metrics, NotMainTrainer>>

\* params["elasticnet"]
Lookup(doc, key) ==
    CASE doc = YamlNull -> [raised |-> "TypeError"]
      [] key \notin DOMAIN doc -> [raised |-> "KeyError"]
      [] OTHER -> [raised |-> "none", value |-> doc[key]]

MainLookup ==
    /\ At(4)
    /\ LET r == Lookup(params, "elasticnet")
       IN  main' = [Advance(Steps[4], r.raised) EXCEPT
                      !.params_grid = IF r.raised = "none" THEN r.value ELSE @]
    /\ UNCHANGED <<metrics, tvars, NotMainTrainer>>

MainTrain ==
    /\ At(5)
    /\ train_model(ElasticNet, main.params_grid)
    /\ main' = Advance(Steps[5], lastCall'.raised)
    /\ UNCHANGED <<metrics, NotMainTrainer>>

MainMetrics ==
    /\ At(6)
    /\ metrics' = calculate_metrics(X_train, y_train, trainResult.predicted_y, npScalars)
    /\ main' = Advance(Steps[6], metrics'.raised)
    /\ UNCHANGED <<tvars, NotMainTrainer>>

MainModelName ==
    /\ At(7)
    /\ main' = [Advance(Steps[7], "none") EXCEPT !.model_name = get_Model_Name(ElasticNet)]
    /\ UNCHANGED <<metrics, tvars, NotMainTrainer>>

MainNewLogger ==
    /\ At(8)
    /\ LoggerInit(TrackingUri)
    /\ main' = Advance(Steps[8], "none")
    /\ UNCHANGED <<mvars, npScalars, tvars>>

MainLogResults ==
    /\ At(9)
    /\ LogResultsCall(Len(loggers), main.model_name, trainResult.best_model,
                      trainResult.best_params, metrics)
    /\ main' = [main EXCEPT !.status = "in log_results"]
    /\ UNCHANGED <<mvars, npScalars, tvars>>

\* log_results has returned or raised: the last statement of the script
MainEnd ==
    /\ main.status = "in log_results"
    /\ pc = "idle"
    /\ main' = [main EXCEPT
                  !.status = IF outcome = "returned" THEN "exited" ELSE "crashed",
                  !.trace = Append(@, [step |-> Steps[9],
                                       raised |-> IF outcome = "returned"
                                                    THEN "none" ELSE "MlflowException"])]
    /\ UNCHANGED <<mvars, npScalars, tvars, lvars>>

\* the process is started
MainInit ==
    /\ main = [pc |-> 1, status |-> "running", trace |-> <<>>, params_grid |-> Unset, model_name |-> ""]
    /\ X_train = Unset /\ y_train = Unset /\ params = Unset
    /\ lastCall = Returned("__init__") /\ trainResult = NotCalled
    /\ actual_X = Matrix(0, 0) /\ actual_y = <<>> /\ predicted_y = <<>>
    /\ metrics = NotCalled /\ npScalars \in BOOLEAN
    /\ mlflowUri = NoUri /\ activeRuns = <<>> /\ store = NoStore /\ loggers = <<>>
    /\ pc = "idle" /\ frame = NoFrame /\ requests = <<>> /\ outcome = "none"

InLogResults == UNCHANGED <<mvars, tvars, main, npScalars>>

MainNext ==
    \/ MainLoadX
    \/ MainLoadY
    \/ MainLoadParams
    \/ MainLookup
    \/ MainTrain
    \/ MainMetrics
    \/ MainModelName
    \/ MainNewLogger
    \/ MainLogResults
    \/ StartRun /\ InLogResults
    \/ LogMetric /\ InLogResults
    \/ LogParam /\ InLogResults
    \/ LogModel /\ InLogResults
    \/ WithExit /\ InLogResults
    \/ MainEnd

SpecMain == MainInit /\ [][MainNext]_vars

\* ======================================================================
\* Claims
\* ======================================================================
\* ---------------------------------------------------- calculate_metrics
IsFinite(a) == a.k = "fin"

\* a <= b, a < b and a = b on floats: every comparison with NaN is false.
Leq(a, b) ==
    CASE a.k = "nan" \/ b.k = "nan" -> FALSE
      [] a.k = "-inf" \/ b.k = "+inf" -> TRUE
      [] a.k = "+inf" \/ b.k = "-inf" -> FALSE
      [] OTHER -> a.n * b.d <= b.n * a.d

Lt(a, b) ==
    CASE a.k = "nan" \/ b.k = "nan" -> FALSE
      [] a.k = "+inf" \/ b.k = "-inf" -> FALSE
      [] a.k = "-inf" \/ b.k = "+inf" -> TRUE
      [] OTHER -> a.n * b.d < b.n * a.d

Eq(a, b) ==
    CASE a.k = "nan" \/ b.k = "nan" -> FALSE
      [] a.k # "fin" \/ b.k # "fin" -> a.k = b.k
      [] OTHER -> a.n * b.d = b.n * a.d

MetricsReturned == metrics # NotCalled /\ metrics.raised = "none"
MetricsCalled == metrics # NotCalled
Degenerate == Len(actual_y) - actual_X.shape[2] - 1 <= 0
One == Fin(1, 1, FALSE)
Zero == Fin(0, 1, FALSE)
Square(a) == Fin(a.n * a.n, a.d * a.d, a.np)
\* r is the square root of m, to the precision np.sqrt is modelled with
IsSqrtOf(r, m) ==
    /\ IsFinite(r) /\ IsFinite(m) /\ r.n >= 0
    /\ Leq(Square(r), m)
    /\ Lt(m, Square(Fin(r.n + 1, r.d, r.np)))

\* C5: whenever calculate_metrics is called with n - p - 1 <= 0 (equal to 0
\* or below 0), the call raises or the adjusted R2 it returns is not finite.
C5_DegenerateNotFinite ==
    (MetricsCalled /\ Degenerate) =>
        (metrics.raised # "none" \/ ~IsFinite(metrics.aR2))

\* C5, the part that holds: with n - p - 1 = 0 the call raises
\* (ZeroDivisionError on built-in floats) or returns NaN / Inf.
C5_ZeroDenominatorNotFinite ==
    (MetricsCalled /\ Len(actual_y) - actual_X.shape[2] - 1 = 0) =>
        (metrics.raised # "none" \/ ~IsFinite(metrics.aR2))

\* C6 as stated: for inputs of equal row count calculate_metrics returns
\* MSE >= 0, RMSE = sqrt(MSE) and R2 <= 1.
C6_MetricRanges ==
    MetricsReturned =>
        /\ Leq(Zero, metrics.mse)
        /\ IsSqrtOf(metrics.rmse, metrics.mse)
        /\ Leq(metrics.r2, One)

\* C6 amended: MSE >= 0 and RMSE = sqrt(MSE) for every returned bundle;
\* R2 <= 1 when there are at least two rows, and R2 is NaN with one row.
C6_MetricRangesTwoRows ==
    MetricsReturned =>
        /\ Leq(Zero, metrics.mse)
        /\ IsSqrtOf(metrics.rmse, metrics.mse)
        /\ Len(actual_y) >= 2 => Leq(metrics.r2, One)
        /\ Len(actual_y) < 2 => metrics.r2.k = "nan"

C6_Witness ==
    /\ MetricsReturned
    /\ Len(actual_y) >= 2
    /\ Lt(Zero, metrics.mse)
    /\ ~Eq(Square(metrics.rmse), metrics.mse)
    /\ Lt(metrics.r2, Zero)

\* ---------------------------------------------------------- log_results
\* the run the last log_results call opened
CallOpenedRun == frame.run.idx > 0
CallRun == store[frame.run.uri][frame.run.idx]
CallEnded == pc = "idle" /\ outcome # "none"
LoggingOps == {"log_metric", "log_param", "log_model"}
Failed(i) == ~requests[i].ok
SomeCallFailed == \E i \in DOMAIN requests : Failed(i)

HoldsEverything(r) ==
    /\ Len(r.metrics) = 5
    /\ Len(r.params) = Len(frame.best_params)
    /\ Len(r.artifacts) = 1

HoldsNothing(r) == r.metrics = <<>> /\ r.params = <<>> /\ r.artifacts = <<>>

\* C1: after log_results has ended, by returning or by raising at any of
\* its logging calls, the run holds all five metrics, all the parameters
\* and the artifact, or none of them.
C1_AllOrNothing ==
    (CallEnded /\ CallOpenedRun) => (HoldsEverything(CallRun) \/ HoldsNothing(CallRun))

\* C2: whenever log_results is not executing (it has returned or raised)
\* no run is active and every run it opened is ended, FINISHED or FAILED;
\* every logging call is made while the run is open; and a run that is
\* open is eventually closed.
C2_RunClosedOnEveryExit ==
    /\ [](pc = "idle" =>
            /\ activeRuns = <<>>
            /\ \A u \in Uris : \A i \in DOMAIN store[u] :
                  store[u][i].status \in {"FINISHED", "FAILED"})
    /\ [](\A i \in DOMAIN requests :
            requests[i].op \in LoggingOps => requests[i].open)
    /\ (RunOpen ~> ~RunOpen)

C2_Witness ==
    /\ CallEnded /\ outcome = "raised" /\ CallOpenedRun
    /\ requests[Len(requests)].op = "log_model"
    /\ CallRun.status = "FAILED"
    /\ activeRuns = <<>>

ExpectedParamKey(name) ==
    CASE name = "alpha" -> "Best alpha"
      [] name = "l1_ratio" -> "Best l1_ratio"

ExpectedArtifactKey(name) ==
    CASE name = "ElasticNet" -> "ElasticNet_model"
      [] name = "Lasso" -> "Lasso_model"

\* C3: when no logging call fails, log_results leaves one run named
\* model_name holding exactly the five metrics under their fixed keys with
\* the values passed, one "Best <name>" parameter per hyperparameter with
\* the chosen value, and the one artifact "<model_name>_model".
C3_RunContents ==
    (CallEnded /\ outcome = "returned") =>
        /\ CallOpenedRun
        /\ Cardinality({i \in DOMAIN requests : requests[i].op = "start_run"}) = 1
        /\ CallRun.name = frame.model_name
        /\ CallRun.status = "FINISHED"
        /\ CallRun.metrics =
              << <<"MSE", frame.mse>>, <<"MAE", frame.mae>>, <<"RMSE", frame.rmse>>,
                 <<"R2", frame.r2>>, <<"Adjusted R2", frame.aR2>> >>
        /\ Len(CallRun.params) = Len(frame.best_params)
        /\ \A i \in DOMAIN frame.best_params :
              CallRun.params[i] = <<ExpectedParamKey(frame.best_params[i][1]),
                                    frame.best_params[i][2]>>
        /\ CallRun.artifacts =
              << <<ExpectedArtifactKey(frame.model_name), frame.best_model>> >>

C3_Witness ==
    /\ CallEnded /\ outcome = "returned"
    /\ Len(frame.best_params) = 2
    /\ Len(CallRun.params) = 2

\* C4: a logging call that fails is the last mlflow call log_results makes
\* (it is not retried and nothing is logged after it), log_results ends by
\* raising, and its run, if one was opened, does not end FINISHED.
C4_FailurePropagates ==
    /\ \A i \in DOMAIN requests : Failed(i) => i = Len(requests)
    /\ (pc = "idle" /\ SomeCallFailed) =>
          /\ outcome = "raised"
          /\ CallOpenedRun => CallRun.status = "FAILED"
    /\ (pc = "idle" /\ outcome = "returned") => ~SomeCallFailed

C4_Witness ==
    /\ CallEnded /\ outcome = "raised" /\ CallOpenedRun
    /\ requests[Len(requests)].op = "log_param"
    /\ ~requests[Len(requests)].ok
    /\ CallRun.status = "FAILED"

\* C8: the tracking destination is the one the most recent logger
\* construction set, log_results never changes it, and every run is
\* recorded at the destination that was set by the most recent
\* construction when the run was opened, whichever instance made the call.
C8_ProcessWideDestination ==
    /\ loggers # <<>> => mlflowUri = loggers[Len(loggers)].tracking_uri
    /\ \A u \in Uris : \A i \in DOMAIN store[u] : store[u][i].latest = u

\* a run recorded somewhere else than at the address of its own instance
C8_Witness ==
    \E u \in Uris : \E i \in DOMAIN store[u] :
        /\ loggers[store[u][i].by].tracking_uri # u
        /\ store[u][i].status = "FINISHED"

\* ---------------------------------------------------------- train_model
TrainReturned == trainResult # NotCalled /\ trainResult.raised = "none"
OneCandidateEach(grid) == \A h \in DOMAIN grid : Len(grid[h]) = 1

\* C7: with a grid of exactly one candidate per hyperparameter, every
\* train_model call that returns gives best_params equal to that one
\* combination, whatever the search sampled.
C7_SingletonGridDeterministic ==
    (TrainReturned /\ OneCandidateEach(trainResult.grid)) =>
        /\ Len(trainResult.best_params) = Cardinality(DOMAIN trainResult.grid)
        /\ \A h \in DOMAIN trainResult.grid :
              \E i \in DOMAIN trainResult.best_params :
                  trainResult.best_params[i] = <<h, trainResult.grid[h][1]>>

C7_Witness ==
    /\ TrainReturned
    /\ trainResult.grid = SingletonGrid
    /\ Len(trainResult.best_params) = 2

SetUpTracking == mlflowUri # NoUri \/ loggers # <<>> \/ RunCount > 0 \/ requests # <<>>

\* C9: the steps run at most once each in program order; a step that
\* fails is the last step run and ends the process; the tracking
\* destination is set and a run opened only after every step before the
\* logger's construction has succeeded.
C9_FixedOrderFailFast ==
    /\ Len(main.trace) <= Len(Steps)
    /\ \A i \in DOMAIN main.trace : main.trace[i].step = Steps[i]
    /\ \A i \in DOMAIN main.trace :
          main.trace[i].raised # "none" => (i = Len(main.trace) /\ main.status = "crashed")
    /\ main.status = "crashed" => main.trace[Len(main.trace)].raised # "none"
    /\ SetUpTracking =>
          /\ Len(main.trace) >= 8
          /\ \A i \in 1..7 : main.trace[i].raised = "none"

C9_Witness ==
    /\ main.status = "crashed"
    /\ Len(main.trace) = 4
    /\ main.trace[4].raised = "KeyError"
    /\ ~SetUpTracking

====
